---------------------------- MODULE Spec2Model ----------------------------
(***************************************************************************)
(* Model of the Nessus report verification-merge core:                     *)
(*   - _strip_code_fences / _extract_json_object   (nessus_verifier.py)    *)
(*   - the shape dispatch of verify_nessus_report and the two converters   *)
(*     _convert_verification_to_decisions and                              *)
(*     _convert_recommendations_to_decisions       (nessus_verifier.py)    *)
(*   - compile_nessus_report_with_verification_impl (nessus_tools.py)      *)
(*   - parse_nessus_report                          (nessus_tools.py)      *)
(*                                                                         *)
(* Text is a sequence of one-character strings.  json.loads is modelled by *)
(* a recursive-descent parser for the part of the JSON grammar that the    *)
(* characters of the text alphabet can spell: objects, strings without     *)
(* escapes, unsigned integers and white space.                             *)
(***************************************************************************)
EXTENDS Integers, Sequences, FiniteSets, TLC

VARIABLES
    pc,              \* position in the call being modelled
    final_output,    \* the input of _extract_json_object
    ext,             \* its outcome: a returned value or a raised ValueError
    parsed_obj,      \* verify_nessus_report: the extracted value
    decisions_data,  \* verify_nessus_report: the canonical decisions dict
    original,        \* the document at original_report_path
    new_xml,         \* the result of the merge
    output_path,     \* where the merge writes its result ("" for nowhere)
    output_file,     \* the file at output_path
    passes,          \* merge passes made so far
    raised,          \* the exception verify_nessus_report raised to its caller
    report_json      \* the result of parse_nessus_report

vars ==
    << pc, final_output, ext, parsed_obj, decisions_data, original, new_xml,
       output_path, output_file, passes, raised, report_json >>

(***************************************************************************)
(* Bounds of the model.                                                    *)
(***************************************************************************)
MaxFrags == 5      \* fragments concatenated to form an input text
MaxEntries == 2    \* entries of a decisions / results / recommendations list
MaxItems == 2      \* ReportItem elements of the named host

(***************************************************************************)
(* Characters and string helpers (str.strip, startswith, endswith, find).  *)
(***************************************************************************)
QUOTE == "\""
NL == "\n"
Whitespace == {" ", NL}
Digits == {"0", "1", "2", "3", "4", "5", "6", "7", "8", "9"}
\* the backquote character is written BT (the lexer does not accept it in a
\* string literal); three of them are a markdown fence
BT == "^"
Fence == <<BT, BT, BT>>

DigitVal(c) ==
    CASE c = "0" -> 0 [] c = "1" -> 1 [] c = "2" -> 2 [] c = "3" -> 3
      [] c = "4" -> 4 [] c = "5" -> 5 [] c = "6" -> 6 [] c = "7" -> 7
      [] c = "8" -> 8 [] c = "9" -> 9

RECURSIVE LStrip(_)
LStrip(s) ==
    IF s # <<>> /\ Head(s) \in Whitespace THEN LStrip(Tail(s)) ELSE s

RECURSIVE RStrip(_)
RStrip(s) ==
    IF s # <<>> /\ s[Len(s)] \in Whitespace
    THEN RStrip(SubSeq(s, 1, Len(s) - 1))
    ELSE s

Strip(s) == RStrip(LStrip(s))

StartsWith(s, p) == Len(s) >= Len(p) /\ SubSeq(s, 1, Len(p)) = p

EndsWith(s, p) ==
    Len(s) >= Len(p) /\ SubSeq(s, Len(s) - Len(p) + 1, Len(s)) = p

\* str.find(c, from): the first index of c, 0 when there is none (-1 in
\* Python; indices here are 1-based).
FindFrom(s, c, from) ==
    LET hits == {i \in from..Len(s) : s[i] = c}
    IN  IF hits = {} THEN 0 ELSE CHOOSE i \in hits : \A j \in hits : i <= j

Find(s, c) == FindFrom(s, c, 1)

(***************************************************************************)
(* _strip_code_fences                                                      *)
(***************************************************************************)
StripCodeFences(s) ==
    LET text == Strip(s)
    IN  IF StartsWith(text, Fence)
        THEN LET first_newline == Find(text, NL)
                 t1 == IF first_newline # 0
                       THEN SubSeq(text, first_newline + 1, Len(text))
                       ELSE text
                 t2 == IF EndsWith(t1, Fence)
                       THEN SubSeq(t1, 1, Len(t1) - 3)
                       ELSE t1
             IN  Strip(t2)
        ELSE Strip(text)

(***************************************************************************)
(* json.loads on the text alphabet.  Values are tagged records:            *)
(*   [t |-> "num", n |-> Nat]       an integer                             *)
(*   [t |-> "str", s |-> chars]     a string                               *)
(*   [t |-> "obj", m |-> function]  a dict: key chars -> value             *)
(* A parse step returns [ok, val, pos]: pos is the index after the value.  *)
(***************************************************************************)
JNull == [t |-> "null"]
JNum(n) == [t |-> "num", n |-> n]
JStr(s) == [t |-> "str", s |-> s]
JObj(m) == [t |-> "obj", m |-> m]
EmptyDict == [k \in {} |-> JNull]

PFail == [ok |-> FALSE, val |-> JNull, pos |-> 0]
POk(v, p) == [ok |-> TRUE, val |-> v, pos |-> p]

RECURSIVE SkipWs(_, _)
SkipWs(s, i) ==
    IF i <= Len(s) /\ s[i] \in Whitespace THEN SkipWs(s, i + 1) ELSE i

\* scanstring (strict): from the opening quote at i to the next quote; a
\* control character inside the literal is an error.
ParseString(s, i) ==
    LET close == FindFrom(s, QUOTE, i + 1)
    IN  IF close = 0 THEN PFail
        ELSE IF \E k \in (i + 1)..(close - 1) : s[k] = NL THEN PFail
        ELSE POk(JStr(SubSeq(s, i + 1, close - 1)), close + 1)

RECURSIVE DigitsEnd(_, _)
DigitsEnd(s, i) ==
    IF i <= Len(s) /\ s[i] \in Digits THEN DigitsEnd(s, i + 1) ELSE i

RECURSIVE IntOf(_)
IntOf(ds) ==
    IF ds = <<>> THEN 0
    ELSE 10 * IntOf(SubSeq(ds, 1, Len(ds) - 1)) + DigitVal(ds[Len(ds)])

\* NUMBER_RE, integer part: 0 | [1-9][0-9]*  (a leading 0 ends the number)
ParseNumber(s, i) ==
    LET e == IF s[i] = "0" THEN i + 1 ELSE DigitsEnd(s, i)
    IN  POk(JNum(IntOf(SubSeq(s, i, e - 1))), e)

RECURSIVE ParseValue(_, _), ParseMembers(_, _, _)

\* JSONObject: i is the index after the opening brace
ParseObject(s, i) ==
    LET j == SkipWs(s, i)
    IN  IF j > Len(s) THEN PFail
        ELSE IF s[j] = "}" THEN POk(JObj(EmptyDict), j + 1)
        ELSE IF s[j] # QUOTE THEN PFail
        ELSE ParseMembers(s, j, EmptyDict)

\* the member loop of JSONObject: i is at the opening quote of a key and
\* acc holds the pairs read so far (a repeated key keeps the later value)
ParseMembers(s, i, acc) ==
    LET k == ParseString(s, i)
    IN  IF ~k.ok THEN PFail
        ELSE
        LET c == SkipWs(s, k.pos)
        IN  IF c > Len(s) \/ s[c] # ":" THEN PFail
            ELSE
            LET v == ParseValue(s, SkipWs(s, c + 1))
            IN  IF ~v.ok THEN PFail
                ELSE
                LET e == SkipWs(s, v.pos)
                    key == k.val.s
                    acc2 == [x \in DOMAIN acc \cup {key} |->
                               IF x = key THEN v.val ELSE acc[x]]
                IN  IF e > Len(s) THEN PFail
                    ELSE IF s[e] = "}" THEN POk(JObj(acc2), e + 1)
                    ELSE IF s[e] # "," THEN PFail
                    ELSE
                    LET n == SkipWs(s, e + 1)
                    IN  IF n > Len(s) \/ s[n] # QUOTE THEN PFail
                        ELSE ParseMembers(s, n, acc2)

\* scan_once
ParseValue(s, i) ==
    IF i > Len(s) THEN PFail
    ELSE IF s[i] = QUOTE THEN ParseString(s, i)
    ELSE IF s[i] = "{" THEN ParseObject(s, i + 1)
    ELSE IF s[i] \in Digits THEN ParseNumber(s, i)
    ELSE PFail

\* JSONDecoder.decode: one value between optional white space, nothing else
JsonLoads(s) ==
    LET r == ParseValue(s, SkipWs(s, 1))
    IN  IF r.ok /\ SkipWs(s, r.pos) = Len(s) + 1
        THEN [ok |-> TRUE, val |-> r.val]
        ELSE [ok |-> FALSE, val |-> JNull]

(***************************************************************************)
(* _extract_json_object                                                    *)
(***************************************************************************)
Returned(v) == [kind |-> "value", val |-> v, msg |-> ""]
Raised(m) == [kind |-> "ValueError", val |-> JNull, msg |-> m]
NotRun == [kind |-> "none", val |-> JNull, msg |-> ""]

\* the input is [isStr, chars, obj]: a str, or an already structured value
StrInput(chars) == [isStr |-> TRUE, chars |-> chars, obj |-> JNull]
ObjInput(v) == [isStr |-> FALSE, chars |-> <<>>, obj |-> v]

\* ScanBraces with the search abandoned at the first candidate that does not
\* parse (a raise in the except branch)
RECURSIVE ScanBracesStopAtFirst(_, _, _, _)
ScanBracesStopAtFirst(cleaned, start, i, depth) ==
    IF i > Len(cleaned)
    THEN Raised("Failed to parse JSON from model output")
    ELSE IF cleaned[i] = "{"
    THEN ScanBracesStopAtFirst(cleaned, start, i + 1, depth + 1)
    ELSE IF cleaned[i] = "}"
    THEN IF depth - 1 = 0
         THEN LET candidate == JsonLoads(SubSeq(cleaned, start, i))
              IN  IF candidate.ok
                  THEN Returned(candidate.val)
                  ELSE Raised("Failed to parse JSON from model output")
         ELSE ScanBracesStopAtFirst(cleaned, start, i + 1, depth - 1)
    ELSE ScanBracesStopAtFirst(cleaned, start, i + 1, depth)

\* the for loop over range(start, len(cleaned)): i is the loop index and
\* depth the brace depth before reading cleaned[i]
RECURSIVE ScanBraces(_, _, _, _)
ScanBraces(cleaned, start, i, depth) ==
    IF i > Len(cleaned)
    THEN Raised("Failed to parse JSON from model output")
    ELSE IF cleaned[i] = "{"
    THEN ScanBraces(cleaned, start, i + 1, depth + 1)
    ELSE IF cleaned[i] = "}"
    THEN IF depth - 1 = 0
         THEN LET candidate == JsonLoads(SubSeq(cleaned, start, i))
              IN  IF candidate.ok
                  THEN Returned(candidate.val)
                  ELSE ScanBraces(cleaned, start, i + 1, depth - 1)
         ELSE ScanBraces(cleaned, start, i + 1, depth - 1)
    ELSE ScanBraces(cleaned, start, i + 1, depth)

ExtractJsonObject(input) ==
    IF ~input.isStr THEN Returned(input.obj)
    ELSE
    LET cleaned == StripCodeFences(input.chars)
        direct == JsonLoads(cleaned)
        start == Find(cleaned, "{")
    IN  IF direct.ok THEN Returned(direct.val)
        ELSE IF start = 0
        THEN Raised("No JSON object found in model output")
        ELSE ScanBraces(cleaned, start, start, 0)

(***************************************************************************)
(* Structured values of the normalizer and the merge engine.  A dict is a  *)
(* function from its keys, a list a sequence, a str a string, a number a   *)
(* record [k, n]: an int n, or a float with one decimal given in tenths.   *)
(***************************************************************************)
PyInt(n) == [k |-> "int", n |-> n]
PyFloat(tenths) == [k |-> "float", n |-> tenths]

\* dict.get(key, default)
Get(d, key, dflt) == IF key \in DOMAIN d THEN d[key] ELSE dflt

DigitChars == <<"0", "1", "2", "3", "4", "5", "6", "7", "8", "9">>

RECURSIVE IntStr(_)
IntStr(n) ==
    IF n < 10 THEN DigitChars[n + 1]
    ELSE IntStr(n \div 10) \o DigitChars[(n % 10) + 1]

\* str(x) of a number: 80 -> "80", 0.9 -> "0.9", 0.0 -> "0.0"
PyStr(x) ==
    IF x.k = "int" THEN IntStr(x.n)
    ELSE IntStr(x.n \div 10) \o "." \o IntStr(x.n % 10)

\* str.replace(old, new): every non-overlapping occurrence, left to right
RECURSIVE Replace(_, _, _)
Replace(s, old, new) ==
    IF Len(s) < Len(old) THEN s
    ELSE IF SubSeq(s, 1, Len(old)) = old
    THEN new \o Replace(SubSeq(s, Len(old) + 1, Len(s)), old, new)
    ELSE SubSeq(s, 1, 1) \o Replace(SubSeq(s, 2, Len(s)), old, new)

\* sep.join(parts), computed by halves
RECURSIVE Join(_, _)
Join(sep, parts) ==
    IF parts = <<>> THEN ""
    ELSE IF Len(parts) = 1 THEN parts[1]
    ELSE LET half == Len(parts) \div 2
         IN  Join(sep, SubSeq(parts, 1, half)) \o sep
               \o Join(sep, SubSeq(parts, half + 1, Len(parts)))

\* list[:n]
Take(xs, n) == SubSeq(xs, 1, IF Len(xs) < n THEN Len(xs) ELSE n)

\* the cap on the tests of one decision ("return tests[:5]")
TestLimit == 5

(***************************************************************************)
(* _build_rationale_from_verification                                      *)
(***************************************************************************)
BuildRationaleFromVerification(result) ==
    LET status == Get(result, "verification_status", "UNCERTAIN")
        plugin_name == Get(result, "plugin_name", "Unknown")
        head == <<plugin_name \o " - " \o status>>
        impact == Get(result, "impact_assessment", EmptyDict)
        evidence == Get(result, "exploitation_evidence", EmptyDict)
        exploits == Get(evidence, "successful_exploits", <<>>)
        failed_exploits == Get(evidence, "failed_exploits", <<>>)
        risk_part ==
            IF Get(impact, "business_risk", "") # ""
            THEN <<"Business risk: " \o impact["business_risk"]>>
            ELSE <<>>
        exploit_part ==
            IF exploits # <<>>
            THEN <<"Exploitation confirmed: "
                     \o Get(exploits[1], "exploit_type", "Unknown")>>
            ELSE <<>>
        failed_part ==
            IF failed_exploits # <<>>
            THEN <<"Testing failed: "
                     \o Get(failed_exploits[1], "reason_failed",
                            "Could not reproduce")>>
            ELSE <<>>
        rationale_parts ==
            IF status = "CONFIRMED_VULNERABLE"
            THEN head \o risk_part \o exploit_part
            ELSE IF status = "FALSE_POSITIVE" THEN head \o failed_part
            ELSE head
    IN  Join(". ", rationale_parts)

(***************************************************************************)
(* _extract_tests_from_verification                                        *)
(***************************************************************************)
RECURSIVE PrefixedCommands(_, _, _)
\* the loop "for x in xs: if x.get(field): tests.append(prefix + x[field])"
PrefixedCommands(xs, field, prefix) ==
    IF xs = <<>> THEN <<>>
    ELSE (IF Get(Head(xs), field, "") # ""
          THEN <<prefix \o Head(xs)[field]>>
          ELSE <<>>) \o PrefixedCommands(Tail(xs), field, prefix)

ExtractTestsFromVerification(result) ==
    LET testing_data == Get(result, "testing_executed", EmptyDict)
        primary == Get(testing_data, "primary_tests", EmptyDict)
        exploitation == Get(testing_data, "exploitation_attempts", <<>>)
        manual == Get(testing_data, "manual_verification", <<>>)
        tests ==
            PrefixedCommands(<<primary>>, "command", "Primary: ")
              \o PrefixedCommands(Take(exploitation, 2), "command",
                                  "Exploit test: ")
              \o PrefixedCommands(Take(manual, 1), "procedure", "Manual: ")
    IN  Take(tests, TestLimit)

(***************************************************************************)
(* _convert_verification_to_decisions                                      *)
(***************************************************************************)
\* status_mapping.get(s, "uncertain") with an entry dropped: FALSE_POSITIVE
\* falls through to the default
StatusMappingNoFalsePositive(s) ==
    CASE s = "CONFIRMED_VULNERABLE" -> "confirmed"
      [] s = "NOT_EXPLOITABLE" -> "rejected"
      [] s = "ACCESS_LIMITED" -> "uncertain"
      [] OTHER -> "uncertain"

\* status_mapping.get(s, "uncertain")
StatusMapping(s) ==
    CASE s = "CONFIRMED_VULNERABLE" -> "confirmed"
      [] s = "NOT_EXPLOITABLE" -> "rejected"
      [] s = "FALSE_POSITIVE" -> "rejected"
      [] s = "ACCESS_LIMITED" -> "uncertain"
      [] OTHER -> "uncertain"

VerificationDecision(result) ==
    [ host |-> Get(result, "host", ""),
      plugin_id |-> Get(result, "plugin_id", ""),
      port |-> Get(result, "port", "0"),
      protocol |-> Get(result, "protocol", "tcp"),
      status |-> StatusMapping(Get(result, "verification_status", "uncertain")),
      confidence |-> Get(result, "confidence_level", PyFloat(5)),
      score |-> Get(result, "verified_score", PyInt(50)),
      rationale |-> BuildRationaleFromVerification(result),
      recommended_tests |-> ExtractTestsFromVerification(result) ]

ConvertVerificationToDecisions(verification_results) ==
    LET verification_data ==
            Get(verification_results, "verification_results", <<>>)
        total_tested ==
            Get(Get(verification_results, "executive_summary", EmptyDict),
                "total_tested", PyInt(0))
    IN  [ decisions |->
            [i \in 1..Len(verification_data) |->
               VerificationDecision(verification_data[i])],
          meta |->
            [ scoring_profile |-> "verification_based",
              notes |-> "Results from comprehensive verification testing. "
                          \o PyStr(total_tested) \o " findings tested." ] ]

(***************************************************************************)
(* _convert_recommendations_to_decisions                                   *)
(***************************************************************************)
RecommendationStatus(risk) ==
    Replace(Replace(Replace(Get(risk, "status", "needs_verification"),
                            "needs_verification", "uncertain"),
                    "likely_false_positive", "rejected"),
            "confirmed_by_analysis", "confirmed")

RecommendationDecision(rec) ==
    LET risk == Get(rec, "risk_assessment", EmptyDict)
    IN  [ host |-> Get(rec, "host", ""),
          plugin_id |-> Get(rec, "plugin_id", ""),
          port |-> Get(rec, "port", "0"),
          protocol |-> Get(rec, "protocol", "tcp"),
          status |-> RecommendationStatus(risk),
          confidence |-> Get(risk, "confidence", PyFloat(5)),
          score |-> Get(risk, "adjusted_score",
                        Get(risk, "initial_score", PyInt(50))),
          rationale |->
            Get(rec, "plugin_name", "Unknown") \o " - "
              \o Get(risk, "status", "uncertain") \o ". "
              \o Get(Get(rec, "evidence_analysis", EmptyDict),
                     "plugin_output_summary", ""),
          recommended_tests |->
            Take(Get(Get(rec, "testing_strategy", EmptyDict),
                     "primary_tests", <<>>), 3) ]

ConvertRecommendationsToDecisions(recommendations_data) ==
    LET recommendations == Get(recommendations_data, "recommendations", <<>>)
        decisions ==
            [i \in 1..Len(recommendations) |->
               RecommendationDecision(recommendations[i])]
    IN  [ decisions |-> decisions,
          meta |->
            [ scoring_profile |-> "recommendation_based",
              notes |-> "Based on recommendations analysis. "
                          \o IntStr(Len(decisions))
                          \o " findings analyzed. Verification phase incomplete." ] ]

(***************************************************************************)
(* verify_nessus_report: the choice of the shape (lines 271-283).  The     *)
(* parsed value is [isDict, d]: a dict d, or a value that is no dict.      *)
(***************************************************************************)
UnrecognizedNote == "Could not parse verification results properly"

\* the dispatch with the first two tests swapped
NormalizeShapeRecommendationsFirst(parsed) ==
    IF parsed.isDict /\ "recommendations" \in DOMAIN parsed.d
    THEN ConvertRecommendationsToDecisions(parsed.d)
    ELSE IF parsed.isDict /\ "verification_results" \in DOMAIN parsed.d
    THEN ConvertVerificationToDecisions(parsed.d)
    ELSE IF parsed.isDict /\ "decisions" \in DOMAIN parsed.d
    THEN parsed.d
    ELSE [decisions |-> <<>>, meta |-> [notes |-> UnrecognizedNote]]

NormalizeShape(parsed) ==
    IF parsed.isDict /\ "verification_results" \in DOMAIN parsed.d
    THEN ConvertVerificationToDecisions(parsed.d)
    ELSE IF parsed.isDict /\ "recommendations" \in DOMAIN parsed.d
    THEN ConvertRecommendationsToDecisions(parsed.d)
    ELSE IF parsed.isDict /\ "decisions" \in DOMAIN parsed.d
    THEN parsed.d
    ELSE [decisions |-> <<>>, meta |-> [notes |-> UnrecognizedNote]]

\* a value that is a dict (a number is a record with the field k)
IsPyDict(x) == "k" \notin DOMAIN x

\* the exception a converter raises, "" for none: result.get / rec.get of an
\* entry that is no dict is an AttributeError (lines 155 and 306)
ConverterError(entries) ==
    IF \E i \in DOMAIN entries : ~IsPyDict(entries[i])
    THEN "'int' object has no attribute 'get'"
    ELSE ""

\* the exception of the dispatch of lines 271-283, "" for none
NormalizeError(parsed) ==
    IF parsed.isDict /\ "verification_results" \in DOMAIN parsed.d
    THEN ConverterError(parsed.d["verification_results"])
    ELSE IF parsed.isDict /\ "recommendations" \in DOMAIN parsed.d
    THEN ConverterError(parsed.d["recommendations"])
    ELSE ""

(***************************************************************************)
(* compile_nessus_report_with_verification_impl.  An element of the        *)
(* document is [tag, attrs, text, children]; the document is               *)
(* [wellFormed, root].  The result is the new tree under an XML            *)
(* declaration, or the ParseError of ET.parse.                             *)
(***************************************************************************)
Elem(tag, attrs, text, children) ==
    [tag |-> tag, attrs |-> attrs, text |-> text, children |-> children]

NS == "https://aliasrobotics.com/"
NSTag(name) == "{" \o NS \o "}" \o name

UpperLetters == "ABCDEFGHIJKLMNOPQRSTUVWXYZ"
LowerLetters == "abcdefghijklmnopqrstuvwxyz"

\* the lower-case letter of each upper-case letter
LowerOf ==
    [c \in {SubSeq(UpperLetters, i, i) : i \in 1..Len(UpperLetters)} |->
       LET i == CHOOSE i \in 1..Len(UpperLetters) : SubSeq(UpperLetters, i, i) = c
       IN  SubSeq(LowerLetters, i, i)]

LowerChar(c) == IF c \in DOMAIN LowerOf THEN LowerOf[c] ELSE c

\* str.lower
RECURSIVE Lower(_)
Lower(s) ==
    IF s = "" THEN ""
    ELSE LowerChar(SubSeq(s, 1, 1)) \o Lower(SubSeq(s, 2, Len(s)))

\* key(): f"{host}|{plugin_id}|{port}|{(protocol or '').lower()}"
Key(host, plugin_id, port, protocol) ==
    host \o "|" \o plugin_id \o "|" \o port \o "|" \o Lower(protocol)

\* the key of a decision (line 152); str(port) of a str is the str itself
DecisionKey(d) ==
    Key(Get(d, "host", ""), Get(d, "plugin_id", ""), Get(d, "port", "0"),
        Get(d, "protocol", ""))

\* the loop of lines 151-152: decisions_index[key(d)] = d for each entry
RECURSIVE BuildIndex(_, _)
BuildIndex(entries, index) ==
    IF entries = <<>> THEN index
    ELSE LET d == Head(entries)
             kd == DecisionKey(d)
         IN  BuildIndex(Tail(entries),
                 [x \in DOMAIN index \cup {kd} |->
                    IF x = kd THEN d ELSE index[x]])

\* elem.get(name) or dflt
AttrOr(elem, name, dflt) ==
    IF name \in DOMAIN elem.attrs /\ elem.attrs[name] # ""
    THEN elem.attrs[name]
    ELSE dflt

\* the key of a finding element (lines 163-169)
ItemKey(host, item) ==
    Key(AttrOr(host, "name", ""), AttrOr(item, "pluginID", ""),
        AttrOr(item, "port", "0"), Lower(AttrOr(item, "protocol", "")))

\* the subtree of lines 173-186
Verification(d) ==
    LET tests == Get(d, "recommended_tests", <<>>)
        ev == Elem(NSTag("evidence"), EmptyDict, Get(d, "rationale", ""), <<>>)
        tests_el ==
            Elem(NSTag("recommended_tests"), EmptyDict, "",
                 [i \in 1..Len(tests) |->
                    Elem(NSTag("test"), EmptyDict, tests[i], <<>>)])
    IN  Elem(NSTag("verification"),
             [ status |-> Get(d, "status", "uncertain"),
               confidence |-> PyStr(Get(d, "confidence", PyFloat(0))),
               score |-> PyStr(Get(d, "score", PyInt(0))) ],
             "",
             IF tests # <<>> THEN <<ev, tests_el>> ELSE <<ev>>)

\* lines 165-186 with every finding annotated, from defaults when no
\* decision is found
AnnotateItemAlways(host, item, decisions_index) ==
    LET ki == ItemKey(host, item)
        d == IF ki \in DOMAIN decisions_index THEN decisions_index[ki]
             ELSE EmptyDict
    IN  [item EXCEPT !.children = Append(@, Verification(d))]

\* lines 165-186: one finding element; "if not d" skips a missing decision
\* and an empty one
AnnotateItem(host, item, decisions_index) ==
    LET ki == ItemKey(host, item)
    IN  IF ki \notin DOMAIN decisions_index THEN item
        ELSE IF DOMAIN decisions_index[ki] = {} THEN item
        ELSE [item EXCEPT
                !.children = Append(@, Verification(decisions_index[ki]))]

\* lines 162-164: every ReportItem child of one ReportHost
AnnotateHost(host, decisions_index) ==
    [host EXCEPT !.children =
        [i \in DOMAIN @ |->
           IF @[i].tag = "ReportItem"
           THEN AnnotateItem(host, @[i], decisions_index)
           ELSE @[i]]]

\* lines 160-162: root.find("Report") is the first Report child; its
\* ReportHost children are visited
AnnotateRoot(root, decisions_index) ==
    LET reports == {i \in DOMAIN root.children :
                      root.children[i].tag = "Report"}
    IN  IF reports = {} THEN root
        ELSE LET r == CHOOSE i \in reports : \A j \in reports : i <= j
             IN  [root EXCEPT !.children[r].children =
                    [i \in DOMAIN @ |->
                       IF @[i].tag = "ReportHost"
                       THEN AnnotateHost(@[i], decisions_index)
                       ELSE @[i]]]

NoElem == Elem("", EmptyDict, "", <<>>)
XmlText(root) == [kind |-> "value", declaration |-> TRUE, root |-> root]
XmlParseError == [kind |-> "ParseError", declaration |-> FALSE, root |-> NoElem]
NoXml == [kind |-> "none", declaration |-> FALSE, root |-> NoElem]

\* the keys of the finding elements of a document
FindingKeys(root) ==
    LET reports == {i \in DOMAIN root.children : root.children[i].tag = "Report"}
        hosts == IF reports = {} THEN <<>>
                 ELSE root.children[CHOOSE i \in reports :
                                      \A j \in reports : i <= j].children
    IN  { ItemKey(hosts[h], hosts[h].children[i]) :
            <<h, i>> \in { hi \in (DOMAIN hosts) \X (1..(MaxItems + 2)) :
                            /\ hosts[hi[1]].tag = "ReportHost"
                            /\ hi[2] \in DOMAIN hosts[hi[1]].children
                            /\ hosts[hi[1]].children[hi[2]].tag = "ReportItem" } }

XmlKeyError == [kind |-> "KeyError", declaration |-> FALSE, root |-> NoElem]

\* the merge with a decision that matches no finding treated as an error
CompileRejectsUnmatched(original_report, decisions) ==
    LET entries == Get(decisions, "decisions", <<>>)
        decisions_index == BuildIndex(entries, EmptyDict)
    IN  IF ~original_report.wellFormed THEN XmlParseError
        ELSE IF \E kd \in DOMAIN decisions_index :
                  kd \notin FindingKeys(original_report.root)
        THEN XmlKeyError
        ELSE XmlText(AnnotateRoot(original_report.root, decisions_index))

\* compile_nessus_report_with_verification_impl(original_report_path, decisions_json):
\* decisions is the dict that json.loads returns for json.dumps(decisions_data)
CompileNessusReportWithVerificationImpl(original_report, decisions) ==
    LET entries == Get(decisions, "decisions", <<>>)
        decisions_index == BuildIndex(entries, EmptyDict)
    IN  IF ~original_report.wellFormed THEN XmlParseError
        ELSE XmlText(AnnotateRoot(original_report.root, decisions_index))

(***************************************************************************)
(* parse_nessus_report.  The texts of attributes and elements are strings; *)
(* None is PyNone.  The result is the dict that json.dumps serializes, or  *)
(* the exception that leaves the function.                                 *)
(***************************************************************************)
PyNone == [k |-> "None"]
PyNan == [k |-> "nan"]
PyInf(sign) == [k |-> "inf", sign |-> sign]

PyWhitespace == {" ", "\t", "\n", "\r"}

RECURSIVE StrLStrip(_)
StrLStrip(s) ==
    IF s # "" /\ SubSeq(s, 1, 1) \in PyWhitespace
    THEN StrLStrip(SubSeq(s, 2, Len(s)))
    ELSE s

RECURSIVE StrRStrip(_)
StrRStrip(s) ==
    IF s # "" /\ SubSeq(s, Len(s), Len(s)) \in PyWhitespace
    THEN StrRStrip(SubSeq(s, 1, Len(s) - 1))
    ELSE s

\* str.strip of a str
StrStrip(s) == StrRStrip(StrLStrip(s))

\* elem.find(tag): the index of the first child with the tag, 0 for None
FindChild(elem, tag) ==
    LET hits == {i \in DOMAIN elem.children : elem.children[i].tag = tag}
    IN  IF hits = {} THEN 0 ELSE CHOOSE i \in hits : \A j \in hits : i <= j

\* elem.findall(tag)
FindAll(elem, tag) == SelectSeq(elem.children, LAMBDA c : c.tag = tag)

\* _safe_text(elem.find(tag))
SafeText(elem, tag) ==
    IF FindChild(elem, tag) = 0 THEN ""
    ELSE StrStrip(elem.children[FindChild(elem, tag)].text)

\* _tags_to_dict(host.find("HostProperties")): a later tag of the same name
\* replaces an earlier one
TagsToDict(host) ==
    IF FindChild(host, "HostProperties") = 0 THEN EmptyDict
    ELSE LET tags == FindAll(host.children[FindChild(host, "HostProperties")],
                             "tag")
             named == {i \in DOMAIN tags : AttrOr(tags[i], "name", "") # ""}
         IN  [ name \in {tags[i].attrs["name"] : i \in named} |->
                 LET is == {i \in named : tags[i].attrs["name"] = name}
                 IN  StrStrip(tags[CHOOSE i \in is : \A j \in is : j <= i].text) ]

\* str.split(sep) for a one-character separator
RECURSIVE Split(_, _)
Split(s, sep) ==
    LET hits == {i \in 1..Len(s) : SubSeq(s, i, i) = sep}
    IN  IF hits = {} THEN <<s>>
        ELSE LET i == CHOOSE i \in hits : \A j \in hits : i <= j
             IN  <<SubSeq(s, 1, i - 1)>> \o Split(SubSeq(s, i + 1, Len(s)), sep)

\* _split_csv
SplitCsv(text) ==
    IF text = "" THEN <<>>
    ELSE LET parts == Split(Replace(text, ";", ","), ",")
         IN  SelectSeq([i \in DOMAIN parts |-> StrStrip(parts[i])],
                       LAMBDA x : x # "")

Unsigned(s) ==
    IF s # "" /\ SubSeq(s, 1, 1) \in {"+", "-"} THEN SubSeq(s, 2, Len(s)) ELSE s

SignOf(s) == IF s # "" /\ SubSeq(s, 1, 1) = "-" THEN -1 ELSE 1

AllDigits(s) == \A i \in 1..Len(s) : SubSeq(s, i, i) \in Digits

RECURSIVE StrIntOf(_)
StrIntOf(s) ==
    IF s = "" THEN 0
    ELSE 10 * StrIntOf(SubSeq(s, 1, Len(s) - 1))
           + DigitVal(SubSeq(s, Len(s), Len(s)))

\* int(s) of a str: white space around an optional sign and decimal digits;
\* anything else raises ValueError (ok is FALSE)
PyIntOf(s) ==
    LET t == StrStrip(s)
        u == Unsigned(t)
    IN  IF u # "" /\ AllDigits(u)
        THEN [ok |-> TRUE, val |-> SignOf(t) * StrIntOf(u)]
        ELSE [ok |-> FALSE, val |-> 0]

\* _to_float: float(s), None when float raises.  float accepts white space
\* around an optional sign and digits with at most one point, or nan, inf,
\* infinity in any letter case (exponents and digit separators are not in
\* the texts of the model, which also have at most one decimal: the value is
\* kept in tenths).
ToFloat(s) ==
    LET t == StrStrip(s)
        u == Unsigned(t)
        dots == {i \in 1..Len(u) : SubSeq(u, i, i) = "."}
        dot == IF dots = {} THEN Len(u) + 1 ELSE CHOOSE i \in dots : TRUE
        whole == SubSeq(u, 1, dot - 1)
        fraction == SubSeq(u, dot + 1, Len(u))
    IN  IF Lower(u) = "nan" THEN PyNan
        ELSE IF Lower(u) \in {"inf", "infinity"} THEN PyInf(SignOf(t))
        ELSE IF /\ Cardinality(dots) <= 1
                /\ AllDigits(whole) /\ AllDigits(fraction)
                /\ whole \o fraction # ""
        THEN PyFloat(SignOf(t) * (10 * StrIntOf(whole)
                                    + StrIntOf(Take(fraction, 1))))
        ELSE PyNone

\* the severity of a finding: int(item.get("severity") or "0")
Severity(item) == PyIntOf(AttrOr(item, "severity", "0"))

\* the dict built for one ReportItem (lines 78-118)
Finding(item) ==
    [ plugin_id |-> AttrOr(item, "pluginID", ""),
      plugin_name |-> AttrOr(item, "pluginName", SafeText(item, "plugin_name")),
      severity |-> Severity(item).val,
      risk_factor |-> SafeText(item, "risk_factor"),
      cvss_base_score |-> ToFloat(SafeText(item, "cvss_base_score")),
      cvss3_base_score |-> ToFloat(SafeText(item, "cvss3_base_score")),
      cves |-> SplitCsv(SafeText(item, "cve")),
      port |-> AttrOr(item, "port", "0"),
      protocol |-> AttrOr(item, "protocol", ""),
      svc_name |-> AttrOr(item, "svc_name", ""),
      description |-> SafeText(item, "description"),
      solution |-> SafeText(item, "solution"),
      see_also |-> SplitCsv(SafeText(item, "see_also")),
      plugin_output |-> Take(SafeText(item, "plugin_output"), 2000) ]

ParseReturned(v) == [kind |-> "value", val |-> v]
ParseFailed(e) == [kind |-> e, val |-> [report_name |-> "", hosts |-> <<>>]]
NoReport == ParseFailed("none")

\* parse_nessus_report(file_path): int() of a severity text is not guarded,
\* so its ValueError leaves the function
ParseNessusReport(report) ==
    IF ~report.wellFormed THEN ParseFailed("ParseError")
    ELSE
    LET root == report.root
        r == FindChild(root, "Report")
        report_name ==
            IF r = 0 THEN "NessusReport"
            ELSE Get(root.children[r].attrs, "name", PyNone)
        hosts == IF r = 0 THEN <<>> ELSE FindAll(root.children[r], "ReportHost")
    IN  IF \E h \in DOMAIN hosts :
             \E j \in DOMAIN FindAll(hosts[h], "ReportItem") :
                 ~Severity(FindAll(hosts[h], "ReportItem")[j]).ok
        THEN ParseFailed("ValueError")
        ELSE ParseReturned(
               [ report_name |-> report_name,
                 hosts |->
                   [ h \in DOMAIN hosts |->
                       [ name |-> AttrOr(hosts[h], "name", ""),
                         properties |-> TagsToDict(hosts[h]),
                         findings |->
                           LET items == FindAll(hosts[h], "ReportItem")
                           IN  [j \in DOMAIN items |-> Finding(items[j])] ] ] ])

(***************************************************************************)
(* Inputs of the normalizer and the merge: parsed values of the three      *)
(* shapes, and documents.                                                  *)
(***************************************************************************)
SeqsUpTo(S, n) == UNION { [1..m -> S] : m \in 0..n }

\* legacy decision records; keys may be missing, and the record may be empty
DecFull ==
    [ host |-> "h1", plugin_id |-> "p1", port |-> "443", protocol |-> "tcp",
      status |-> "confirmed", confidence |-> PyFloat(9), score |-> PyInt(80),
      rationale |-> "X", recommended_tests |-> <<"curl -k https://h1">> ]
DecUpper ==
    [ host |-> "h1", plugin_id |-> "p1", port |-> "443", protocol |-> "TCP",
      status |-> "rejected", confidence |-> PyFloat(2), score |-> PyInt(10),
      rationale |-> "Y" ]
\* a record with one test more than TestLimit
DecNoPort ==
    [ host |-> "h1", plugin_id |-> "p1", rationale |-> "Z",
      recommended_tests |-> [i \in 1..(TestLimit + 1) |-> "t" \o IntStr(i)] ]
DecOther ==
    [ host |-> "h2", plugin_id |-> "p2", port |-> "80", protocol |-> "udp",
      status |-> "maybe", confidence |-> PyInt(1), score |-> PyInt(5),
      rationale |-> "", recommended_tests |-> <<>> ]
DecBlank == [status |-> "confirmed"]
DecEmpty == EmptyDict

LegacyDecisions == {DecFull, DecUpper, DecNoPort, DecOther, DecBlank, DecEmpty}

\* entries of a verification_results list
RichResult(status) ==
    [ host |-> "h1", plugin_id |-> "p1", port |-> "443", protocol |-> "TCP",
      verification_status |-> status, plugin_name |-> "SSL",
      confidence_level |-> PyFloat(9), verified_score |-> PyInt(80),
      impact_assessment |-> [business_risk |-> "high"],
      exploitation_evidence |->
        [ successful_exploits |-> <<[exploit_type |-> "rce"]>>,
          failed_exploits |-> <<EmptyDict>> ],
      testing_executed |->
        [ primary_tests |-> [command |-> "nmap"],
          exploitation_attempts |->
            <<[command |-> "e1"], [command |-> ""], [command |-> "e3"]>>,
          manual_verification |->
            <<[procedure |-> "m1"], [procedure |-> "m2"]>> ] ]
BareResult(status) ==
    [host |-> "h1", plugin_id |-> "p1", verification_status |-> status]
ResultNoStatus == [host |-> "h1", plugin_id |-> "p1", port |-> "443"]

VerificationResults ==
    { RichResult("CONFIRMED_VULNERABLE"), RichResult("FALSE_POSITIVE"),
      BareResult("NOT_EXPLOITABLE"), BareResult("FALSE_POSITIVE"),
      BareResult("ACCESS_LIMITED"), BareResult("PENDING"), ResultNoStatus }

\* entries of a recommendations list
RichRecommendation(status) ==
    [ host |-> "h1", plugin_id |-> "p1", port |-> "443", protocol |-> "tcp",
      plugin_name |-> "SSL",
      risk_assessment |->
        [ status |-> status, confidence |-> PyFloat(7),
          initial_score |-> PyInt(40) ],
      evidence_analysis |-> [plugin_output_summary |-> "out"],
      testing_strategy |-> [primary_tests |-> <<"t1", "t2", "t3", "t4">>] ]
BareRecommendation(status) ==
    [ host |-> "h1", plugin_id |-> "p1",
      risk_assessment |-> [status |-> status, adjusted_score |-> PyInt(60)] ]
RecommendationNoRisk == [host |-> "h1", plugin_id |-> "p1", port |-> "443"]

Recommendations ==
    { RichRecommendation("needs_verification"),
      RichRecommendation("exploitable"),
      BareRecommendation("likely_false_positive"),
      BareRecommendation("confirmed_by_analysis"),
      BareRecommendation("needs_verification_retest"),
      [host |-> "h1", plugin_id |-> "p1", risk_assessment |-> EmptyDict],
      RecommendationNoRisk }

Dict(d) == [isDict |-> TRUE, d |-> d]
NonDict == [isDict |-> FALSE, d |-> EmptyDict]
NotParsed == NonDict

\* a dict with any of the three keys at once (fixed one-entry lists), with
\* and without the other keys a model answer carries
MixedShapes ==
    { Dict([k \in ks |->
              CASE k = "verification_results" ->
                     <<BareResult("FALSE_POSITIVE")>>
                [] k = "recommendations" ->
                     <<BareRecommendation("confirmed_by_analysis")>>
                [] k = "decisions" -> <<DecBlank>>
                [] k = "executive_summary" -> [total_tested |-> PyInt(12)]
                [] k = "meta" -> [notes |-> "n"]]) :
        ks \in SUBSET {"verification_results", "recommendations", "decisions",
                       "executive_summary", "meta"} }

ParsedValues ==
    { Dict([decisions |-> ds]) : ds \in SeqsUpTo(LegacyDecisions, MaxEntries) }
      \cup { Dict([verification_results |-> rs]) :
               rs \in SeqsUpTo(VerificationResults, MaxEntries) }
      \cup { Dict([recommendations |-> rs]) :
               rs \in SeqsUpTo(Recommendations, MaxEntries) }
      \cup MixedShapes
      \cup {NonDict}

\* finding elements
ItemLower ==
    Elem("ReportItem",
         [pluginID |-> "p1", port |-> "443", protocol |-> "tcp"], "",
         <<Elem("description", EmptyDict, "d", <<>>)>>)
ItemUpper ==
    Elem("ReportItem",
         [pluginID |-> "p1", port |-> "443", protocol |-> "TCP"], "", <<>>)
ItemNoPort == Elem("ReportItem", [pluginID |-> "p1", port |-> ""], "", <<>>)
ItemBlank == Elem("ReportItem", EmptyDict, "", <<>>)

HostProperties ==
    Elem("HostProperties", EmptyDict, "",
         <<Elem("tag", [name |-> "host-ip"], "10.0.0.5", <<>>)>>)

NamedHost(items) ==
    Elem("ReportHost", [name |-> "h1"], "", <<HostProperties>> \o items)
UnnamedHost(items) == Elem("ReportHost", EmptyDict, "", items)

Policy == Elem("Policy", EmptyDict, "", <<>>)
Document(root) == [wellFormed |-> TRUE, root |-> root]
Malformed == [wellFormed |-> FALSE, root |-> NoElem]
NoDocument == Malformed

Documents ==
    { Document(Elem("NessusClientData_v2", EmptyDict, "",
                    <<Policy,
                      Elem("Report", [name |-> "scan"], "",
                           <<NamedHost(is), UnnamedHost(us)>>)>>)) :
        is \in SeqsUpTo({ItemLower, ItemUpper, ItemNoPort}, MaxItems),
        us \in {<<>>, <<ItemBlank>>, <<ItemLower>>} }
      \cup { Document(Elem("NessusClientData_v2", EmptyDict, "", <<Policy>>)),
             Malformed }

NoDecisions == [decisions |-> <<>>, meta |-> EmptyDict]

(***************************************************************************)
(* verify_nessus_report: the value of final_output, the preview of the     *)
(* except branch (lines 287-290) and the output file of the merge.         *)
(***************************************************************************)
PreviewLimit == 500

\* final_output is None
NoneInput == [isStr |-> FALSE, chars |-> <<>>, obj |-> PyNone]
IsNone(output) == ~output.isStr /\ output.obj = PyNone

\* isinstance(final_output, (dict, list)): the structured values of the
\* model are the parsed values [isDict, d]
IsStructured(output) == ~output.isStr /\ "isDict" \in DOMAIN output.obj

\* repr of a list of numbers
ReprList(xs) == "[" \o Join(", ", [i \in DOMAIN xs |-> PyStr(xs[i])]) \o "]"

\* str(d) of a dict with one key whose value is a list of numbers
ReprDict(d) ==
    LET key == CHOOSE x \in DOMAIN d : TRUE
    IN  "{'" \o key \o "': " \o ReprList(d[key]) \o "}"

\* str(final_output): the text itself, the repr of a dict, "None"
OutputStr(output) ==
    IF output.isStr THEN output.chars
    ELSE IF IsNone(output) THEN <<"N", "o", "n", "e">>
    ELSE ReprDict(output.obj.d)

\* the preview without the slice
PreviewUncut(output) ==
    IF IsNone(output) THEN "<None>" ELSE OutputStr(output)

\* str(final_output)[:500] if final_output is not None else "<None>"
Preview(output) ==
    IF IsNone(output) THEN "<None>" ELSE Take(OutputStr(output), PreviewLimit)

NotRaised == [kind |-> "none", cause |-> "", preview |-> ""]

\* ValueError(f"Could not parse verification results from model output:
\* {e}. Preview: {preview}")
CallerError(e, preview) == [kind |-> "ValueError", cause |-> e, preview |-> preview]

NoFile == NoXml

\* "if output_path: ... f.write(new_xml)"; nothing is written when the merge
\* raised before
WriteOutput(path, xml, file) ==
    IF path # "" /\ xml.kind = "value" THEN xml ELSE file

\* a char sequence as a str
RECURSIVE StrOf(_)
StrOf(chars) == IF chars = <<>> THEN "" ELSE Head(chars) \o StrOf(Tail(chars))

\* the value json.loads returned, in the representation of the normalizer
RECURSIVE PyValueOf(_)
PyValueOf(v) ==
    CASE v.t = "num" -> PyInt(v.n)
      [] v.t = "str" -> StrOf(v.s)
      [] v.t = "obj" ->
           [ key \in {StrOf(c) : c \in DOMAIN v.m} |->
               PyValueOf(v.m[CHOOSE c \in DOMAIN v.m : StrOf(c) = key]) ]

\* parsed_obj as the dispatch sees it
FromJson(v) == IF v.t = "obj" THEN Dict(PyValueOf(v)) ELSE NonDict

(***************************************************************************)
(* Spec: verify_nessus_report from the extracted value on: the shape is    *)
(* normalized (lines 271-285), then the decisions are merged into the      *)
(* original document (lines 293-297).                                      *)
(***************************************************************************)
Init ==
    /\ pc = "parsed"
    /\ parsed_obj \in ParsedValues
    /\ original \in Documents
    /\ decisions_data = NoDecisions
    /\ new_xml = NoXml
    /\ final_output = ObjInput(JNull)
    /\ ext = NotRun
    /\ output_path = "verified.nessus"
    /\ output_file = NoFile
    /\ passes = 0
    /\ raised = NotRaised
    /\ report_json = NoReport

\* lines 271-290: the shape dispatch; an exception of a converter is caught
\* and raised again as the ValueError with the preview
Normalize ==
    /\ pc = "parsed"
    /\ IF NormalizeError(parsed_obj) # ""
       THEN /\ raised' = CallerError(NormalizeError(parsed_obj),
                                     Preview(final_output))
            /\ pc' = "failed"
            /\ UNCHANGED decisions_data
       ELSE /\ decisions_data' = NormalizeShape(parsed_obj)
            /\ pc' = "normalized"
            /\ UNCHANGED raised
    /\ UNCHANGED << final_output, ext, parsed_obj, original, new_xml,
                    output_path, output_file, passes, report_json >>

\* lines 293-298: the merge, which writes its result to output_path if one
\* is given (nessus_tools.py, lines 188-192)
Compile ==
    /\ pc = "normalized"
    /\ new_xml' = CompileNessusReportWithVerificationImpl(original, decisions_data)
    /\ output_file' = WriteOutput(output_path, new_xml', output_file)
    /\ passes' = passes + 1
    /\ pc' = "compiled"
    /\ UNCHANGED << final_output, ext, parsed_obj, original, decisions_data,
                    output_path, raised, report_json >>

Next == Normalize \/ Compile

Spec == Init /\ [][Next]_vars

(***************************************************************************)
(* Input texts: up to MaxFrags fragments, optionally inside a code fence.  *)
(***************************************************************************)
KeyA == <<QUOTE, "a", QUOTE, ":">>
Frags ==
    { <<"{">>, <<"}">>, <<"a">>, <<"1">>, KeyA,
      <<QUOTE, "}", QUOTE>>, <<QUOTE, "}", "{", QUOTE>> }

RECURSIVE Flatten(_)
Flatten(ss) == IF ss = <<>> THEN <<>> ELSE Head(ss) \o Flatten(Tail(ss))

Bodies == { Flatten(fs) : fs \in UNION { [1..n -> Frags] : n \in 0..MaxFrags } }

Wrappers == {"plain", "fenced", "prose"}

Wrap(w, body) ==
    CASE w = "plain" -> body
      [] w = "fenced" -> Fence \o <<"j", NL>> \o body \o <<NL>> \o Fence
      [] w = "prose" -> <<"a", NL>> \o Fence \o <<NL>> \o body \o <<NL>>
                          \o Fence \o <<NL, "a">>

ExtractInputs ==
    { StrInput(Wrap(w, b)) : w \in Wrappers, b \in Bodies }
      \cup { ObjInput(JObj(EmptyDict)), ObjInput(JNum(1)) }

(***************************************************************************)
(* SpecExtract: one call of _extract_json_object.                          *)
(***************************************************************************)
InitExtract ==
    /\ pc = "start"
    /\ final_output \in ExtractInputs
    /\ ext = NotRun
    /\ parsed_obj = NotParsed
    /\ decisions_data = NoDecisions
    /\ original = NoDocument
    /\ new_xml = NoXml
    /\ output_path = ""
    /\ output_file = NoFile
    /\ passes = 0
    /\ raised = NotRaised
    /\ report_json = NoReport

Extract ==
    /\ pc = "start"
    /\ ext' = ExtractJsonObject(final_output)
    /\ pc' = "done"
    /\ UNCHANGED << final_output, parsed_obj, decisions_data, original, new_xml,
                    output_path, output_file, passes, raised, report_json >>

NextExtract == Extract

SpecExtract == InitExtract /\ [][NextExtract]_vars

(***************************************************************************)
(* Vocabulary of the extractor claims, stated on the fence-stripped text   *)
(* independently of the scan loop.                                         *)
(***************************************************************************)
Cleaned == StripCodeFences(final_output.chars)
FirstBrace == Find(Cleaned, "{")

\* opening minus closing braces among c[a..b], quotes ignored
BraceBalance(c, a, b) ==
    Cardinality({k \in a..b : c[k] = "{"})
      - Cardinality({k \in a..b : c[k] = "}"})

\* the ends of the candidate spans: the closing braces at which the balance
\* counted from the first opening brace is zero
CandidateEnds ==
    IF FirstBrace = 0 THEN {}
    ELSE {i \in FirstBrace..Len(Cleaned) :
            Cleaned[i] = "}" /\ BraceBalance(Cleaned, FirstBrace, i) = 0}

CandidateParses(e) == JsonLoads(SubSeq(Cleaned, FirstBrace, e)).ok
CandidateValue(e) == JsonLoads(SubSeq(Cleaned, FirstBrace, e)).val

FirstSpanEnd ==
    IF CandidateEnds = {} THEN 0
    ELSE CHOOSE e \in CandidateEnds : \A f \in CandidateEnds : e <= f

\* the objects that parse from a span opening at a brace after position p
ObjectsAfter(p) ==
    { JsonLoads(SubSeq(Cleaned, j, k)).val :
        <<j, k>> \in { jk \in ((p + 1)..Len(Cleaned)) \X ((p + 1)..Len(Cleaned)) :
                        /\ jk[1] <= jk[2]
                        /\ Cleaned[jk[1]] = "{"
                        /\ JsonLoads(SubSeq(Cleaned, jk[1], jk[2])).ok } }

ExtractDone == pc = "done" /\ final_output.isStr

\* a malformed balanced fragment followed later by a well-formed object
MalformedThenObject ==
    /\ ExtractDone
    /\ ~JsonLoads(Cleaned).ok
    /\ FirstSpanEnd # 0
    /\ ~CandidateParses(FirstSpanEnd)
    /\ ObjectsAfter(FirstSpanEnd) # {}

\* C1: when the first candidate span fails to parse and a well-formed object
\* follows it, extract returns that later object (the scan goes on from the
\* next opening brace) instead of raising.
C1_ContinuesFromNextBrace ==
    MalformedThenObject =>
        /\ ext.kind = "value"
        /\ ext.val \in ObjectsAfter(FirstSpanEnd)

IsProse(cs) == \A k \in 1..Len(cs) : cs[k] \notin {"{", "}", QUOTE}

HasBraceInString(v) ==
    /\ v.t = "obj"
    /\ \E k \in DOMAIN v.m :
         /\ v.m[k].t = "str"
         /\ \E x \in 1..Len(v.m[k].s) : v.m[k].s[x] \in {"{", "}"}

\* the spans <<i, j>> of the text that are one well-formed object with a
\* brace inside a string value, with nothing but prose around them
ObjectInProse ==
    { ij \in (1..Len(Cleaned)) \X (1..Len(Cleaned)) :
        /\ ij[1] <= ij[2]
        /\ Cleaned[ij[1]] = "{"
        /\ IsProse(SubSeq(Cleaned, 1, ij[1] - 1))
        /\ IsProse(SubSeq(Cleaned, ij[2] + 1, Len(Cleaned)))
        /\ JsonLoads(SubSeq(Cleaned, ij[1], ij[2])).ok
        /\ HasBraceInString(JsonLoads(SubSeq(Cleaned, ij[1], ij[2])).val) }

\* C2: the brace-depth scan is quote-aware: from prose around one
\* well-formed object whose string values contain brace characters, extract
\* returns exactly that object.
C2_QuoteAwareScan ==
    ExtractDone /\ ~JsonLoads(Cleaned).ok =>
        \A ij \in ObjectInProse :
            ext = Returned(JsonLoads(SubSeq(Cleaned, ij[1], ij[2])).val)

\* C3: extract ends in a parsed value or in ValueError (NoObjectFound) and
\* nothing else; it raises, returning no value, exactly when the
\* fence-stripped text does not parse directly and has no opening brace or
\* no candidate span that parses; a returned value is the parse of the whole
\* text or of a candidate span, never a default.
C3_ValueOrNoObjectFound ==
    pc = "done" =>
        /\ ext.kind \in {"value", "ValueError"}
        /\ ext.kind = "ValueError" => ext.val = JNull
        /\ ~final_output.isStr => ext = Returned(final_output.obj)
        /\ final_output.isStr =>
             /\ ext.kind = "ValueError" <=>
                  /\ ~JsonLoads(Cleaned).ok
                  /\ \/ FirstBrace = 0
                     \/ \A e \in CandidateEnds : ~CandidateParses(e)
             /\ ext.kind = "value" =>
                  \/ JsonLoads(Cleaned).ok /\ ext.val = JsonLoads(Cleaned).val
                  \/ \E e \in CandidateEnds :
                       CandidateParses(e) /\ ext.val = CandidateValue(e)

\* C3 witness: braces are present, two or more candidate spans were tried,
\* none parsed, and the call raised.
C3_Witness ==
    /\ ExtractDone
    /\ ~JsonLoads(Cleaned).ok
    /\ Cardinality(CandidateEnds) >= 2
    /\ \A e \in CandidateEnds : ~CandidateParses(e)
    /\ ext.kind = "ValueError"

(***************************************************************************)
(* Vocabulary of the merge and normalizer claims: the finding elements of  *)
(* the original document by position, and what the merge added to each.    *)
(***************************************************************************)
Entries == Get(decisions_data, "decisions", <<>>)
Merged == pc = "compiled" /\ new_xml.kind = "value"

ReportIndex(root) ==
    LET reports == {i \in DOMAIN root.children : root.children[i].tag = "Report"}
    IN  IF reports = {} THEN 0
        ELSE CHOOSE i \in reports : \A j \in reports : i <= j

HostsOf(root) ==
    IF ReportIndex(root) = 0 THEN <<>> ELSE root.children[ReportIndex(root)].children

\* <<h, i>>: the i-th child of the h-th child of the Report is a finding
FindingPaths ==
    { hi \in (1..Len(HostsOf(original.root))) \X (1..(MaxItems + 2)) :
        /\ HostsOf(original.root)[hi[1]].tag = "ReportHost"
        /\ hi[2] <= Len(HostsOf(original.root)[hi[1]].children)
        /\ HostsOf(original.root)[hi[1]].children[hi[2]].tag = "ReportItem" }

OldHost(hi) == HostsOf(original.root)[hi[1]]
OldItem(hi) == OldHost(hi).children[hi[2]]
NewItem(hi) == HostsOf(new_xml.root)[hi[1]].children[hi[2]]

\* the children the merge appended to the finding
Added(hi) ==
    SubSeq(NewItem(hi).children, Len(OldItem(hi).children) + 1,
           Len(NewItem(hi).children))
Annotated(hi) == Added(hi) # <<>>

\* the identity tuple (host, plugin_id, port, protocol lowercased)
DecisionTuple(d) ==
    << Get(d, "host", ""), Get(d, "plugin_id", ""), Get(d, "port", "0"),
       Lower(Get(d, "protocol", "")) >>
FindingTuple(hi) ==
    << AttrOr(OldHost(hi), "name", ""), AttrOr(OldItem(hi), "pluginID", ""),
       AttrOr(OldItem(hi), "port", "0"),
       Lower(AttrOr(OldItem(hi), "protocol", "")) >>

\* the positions of the decisions with the identity tuple of the finding
MatchesOf(hi) ==
    {k \in DOMAIN Entries : DecisionTuple(Entries[k]) = FindingTuple(hi)}
LastOf(K) == CHOOSE k \in K : \A j \in K : j <= k

\* C4: a finding is annotated if and only if some decision has its tuple
\* (host, plugin_id, port with default "0", protocol lowercased); decisions
\* that differ only in protocol letter case address the same finding.
C4_MatchByTuple ==
    Merged => \A hi \in FindingPaths : Annotated(hi) <=> MatchesOf(hi) # {}

\* What holds of C4 on the code: a finding is annotated exactly when the
\* last decision with its tuple exists and is not the empty record.
AnnotatedIffNonEmptyMatch ==
    Merged =>
        \A hi \in FindingPaths :
            Annotated(hi) <=>
                /\ MatchesOf(hi) # {}
                /\ Entries[LastOf(MatchesOf(hi))] # EmptyDict

\* an element without the annotation children anywhere below it
RECURSIVE Unannotate(_)
Unannotate(e) ==
    LET kept == SelectSeq(e.children, LAMBDA c : c.tag # NSTag("verification"))
    IN  [e EXCEPT !.children = [i \in DOMAIN kept |-> Unannotate(kept[i])]]

IsPrefix(xs, ys) == Len(xs) <= Len(ys) /\ SubSeq(ys, 1, Len(xs)) = xs

Unmatched ==
    {k \in DOMAIN Entries :
       \A hi \in FindingPaths : DecisionTuple(Entries[k]) # FindingTuple(hi)}

\* C6: the merge never fails because decisions and findings diverge: on a
\* well-formed document it returns the text, every annotation in it sits on
\* a finding that has the tuple of some decision (a decision that matches no
\* finding adds nothing anywhere), and the result is the one obtained from
\* the matching decisions alone.
C6_MismatchIsSilent ==
    pc = "compiled" /\ original.wellFormed =>
        LET tuples == {FindingTuple(hi) : hi \in FindingPaths}
            matching == SelectSeq(Entries, LAMBDA d : DecisionTuple(d) \in tuples)
        IN  /\ new_xml.kind = "value"
            /\ \A hi \in FindingPaths : Annotated(hi) => MatchesOf(hi) # {}
            /\ new_xml =
                 CompileNessusReportWithVerificationImpl(original,
                     [decisions |-> matching])

\* C6 witness: one decision matched no finding, another was merged.
C6_Witness ==
    /\ Merged
    /\ Unmatched # {}
    /\ \E hi \in FindingPaths : Annotated(hi)

\* the annotation a carries the status, confidence, score, rationale and
\* tests of the decision d
Carries(a, d) ==
    /\ a.tag = NSTag("verification")
    /\ a.attrs["status"] = Get(d, "status", "uncertain")
    /\ a.attrs["confidence"] = PyStr(Get(d, "confidence", PyFloat(0)))
    /\ a.attrs["score"] = PyStr(Get(d, "score", PyInt(0)))
    /\ a.children[1].text = Get(d, "rationale", "")
    /\ LET tests == Get(d, "recommended_tests", <<>>)
       IN  IF tests = <<>> THEN Len(a.children) = 1
           ELSE /\ Len(a.children) = 2
                /\ Len(a.children[2].children) = Len(tests)
                /\ \A x \in 1..Len(tests) : a.children[2].children[x].text = tests[x]

\* C7: when two decisions of the list have the same identity tuple, the
\* later one wins: the matching finding is annotated with the status,
\* confidence, score, rationale and tests of the later decision only.
C7_LaterDecisionWins ==
    Merged =>
        \A hi \in FindingPaths :
            Cardinality(MatchesOf(hi)) >= 2 =>
                /\ Len(Added(hi)) = 1
                /\ Carries(Added(hi)[1], Entries[LastOf(MatchesOf(hi))])

\* What holds of C7 on the code: the later decision wins whenever it is not
\* the empty record.
LaterNonEmptyDecisionWins ==
    Merged =>
        \A hi \in FindingPaths :
            /\ Cardinality(MatchesOf(hi)) >= 2
            /\ Entries[LastOf(MatchesOf(hi))] # EmptyDict
            => /\ Len(Added(hi)) = 1
               /\ Carries(Added(hi)[1], Entries[LastOf(MatchesOf(hi))])

ShapeKeys == {"verification_results", "recommendations", "decisions"}
PresentKeys == IF parsed_obj.isDict THEN DOMAIN parsed_obj.d \cap ShapeKeys ELSE {}
Normalized == pc \in {"normalized", "compiled"}
ScoringProfile == Get(Get(decisions_data, "meta", EmptyDict), "scoring_profile", "")

\* C8: the shape is chosen by key in the order verification_results,
\* recommendations, decisions; a value with none of the keys, or one that is
\* no object, gives an empty decision list with a diagnostic note, and the
\* merge that follows annotates nothing.
C8_ShapePriority ==
    Normalized =>
        /\ "verification_results" \in PresentKeys =>
             /\ ScoringProfile = "verification_based"
             /\ Len(Entries) = Len(parsed_obj.d["verification_results"])
        /\ "verification_results" \notin PresentKeys
             /\ "recommendations" \in PresentKeys =>
             /\ ScoringProfile = "recommendation_based"
             /\ Len(Entries) = Len(parsed_obj.d["recommendations"])
        /\ PresentKeys = {"decisions"} => decisions_data = parsed_obj.d
        /\ PresentKeys = {} =>
             /\ Entries = <<>>
             /\ decisions_data["meta"]["notes"] = UnrecognizedNote
             /\ Merged => new_xml.root = original.root

\* C8 witness: a value carrying all three keys went down the
\* verification_results branch and was merged.
C8_Witness ==
    /\ Merged
    /\ PresentKeys = ShapeKeys
    /\ ScoringProfile = "verification_based"
    /\ Entries # <<>>

\* the table of the claim
CanonicalOfVerificationStatus(s) ==
    IF s = "CONFIRMED_VULNERABLE" THEN "confirmed"
    ELSE IF s \in {"NOT_EXPLOITABLE", "FALSE_POSITIVE"} THEN "rejected"
    ELSE "uncertain"

\* C9: each entry of a verification_results list gives one decision, in
\* order, whose status is the image of verification_status under
\* CONFIRMED_VULNERABLE -> confirmed, NOT_EXPLOITABLE -> rejected,
\* FALSE_POSITIVE -> rejected, ACCESS_LIMITED -> uncertain, and uncertain
\* for any other or missing value.
C9_VerificationStatusTable ==
    Normalized /\ "verification_results" \in PresentKeys =>
        LET results == parsed_obj.d["verification_results"]
        IN  /\ Len(Entries) = Len(results)
            /\ \A i \in DOMAIN results :
                 /\ Entries[i]["host"] = Get(results[i], "host", "")
                 /\ Entries[i]["plugin_id"] = Get(results[i], "plugin_id", "")
                 /\ Entries[i]["port"] = Get(results[i], "port", "0")
                 /\ Entries[i]["protocol"] = Get(results[i], "protocol", "tcp")
                 /\ Entries[i]["status"] =
                      IF "verification_status" \in DOMAIN results[i]
                      THEN CanonicalOfVerificationStatus(
                               results[i]["verification_status"])
                      ELSE "uncertain"

\* C9 witness: a two-entry list, FALSE_POSITIVE then an entry without a
\* status, became rejected then uncertain.
C9_Witness ==
    /\ Normalized
    /\ "verification_results" \in PresentKeys
    /\ Len(Entries) = 2
    /\ Get(parsed_obj.d["verification_results"][1], "verification_status", "")
         = "FALSE_POSITIVE"
    /\ "verification_status" \notin DOMAIN parsed_obj.d["verification_results"][2]
    /\ Entries[1]["status"] = "rejected"
    /\ Entries[2]["status"] = "uncertain"

CanonicalStatuses == {"confirmed", "rejected", "uncertain"}

\* C10: every decision record the normalizer produces, from any of the three
\* shapes, has a status among confirmed, rejected, uncertain, and so has the
\* status attribute of every annotation the merge writes.
C10_StatusIsCanonical ==
    /\ Normalized =>
         \A i \in DOMAIN Entries :
             Get(Entries[i], "status", "uncertain") \in CanonicalStatuses
    /\ Merged =>
         \A hi \in FindingPaths : \A x \in 1..Len(Added(hi)) :
             Added(hi)[x].attrs["status"] \in CanonicalStatuses

\* the annotation a has the shape of lines 173-186 for the decision d: the
\* three attributes, the rationale in an evidence child, and a
\* recommended_tests child with one test child per test, in order, exactly
\* when d has a test
AnnotationOf(a, d) ==
    /\ Carries(a, d)
    /\ DOMAIN a.attrs = {"status", "confidence", "score"}
    /\ a.children[1].tag = NSTag("evidence")
    /\ a.children[1].children = <<>>
    /\ Len(a.children) = 2 <=> Get(d, "recommended_tests", <<>>) # <<>>
    /\ Len(a.children) = 2 =>
         /\ a.children[2].tag = NSTag("recommended_tests")
         /\ \A x \in DOMAIN a.children[2].children :
              a.children[2].children[x].tag = NSTag("test")

\* C12: every finding with a matching decision gets one namespaced
\* annotation child carrying the decision's status, str(confidence) and
\* str(score) as attributes and the rationale as the text of a child; a list
\* of test children is present if and only if the decision has a recommended
\* test, and then holds one test child per test, in the decision's order.
C12_AnnotationCarriesDecision ==
    Merged =>
        \A hi \in FindingPaths :
            MatchesOf(hi) # {} =>
                /\ Len(Added(hi)) = 1
                /\ AnnotationOf(Added(hi)[1], Entries[LastOf(MatchesOf(hi))])

\* What holds of C12 on the code: the annotation is appended, with that
\* shape, whenever the matching decision is not the empty record.
NonEmptyMatchIsCarried ==
    Merged =>
        \A hi \in FindingPaths :
            /\ MatchesOf(hi) # {}
            /\ Entries[LastOf(MatchesOf(hi))] # EmptyDict
            => /\ Len(Added(hi)) = 1
               /\ AnnotationOf(Added(hi)[1], Entries[LastOf(MatchesOf(hi))])

\* the test children of an annotation
TestsOf(a) == IF Len(a.children) = 2 THEN a.children[2].children ELSE <<>>

\* C13: every decision record that reaches the merge, from any of the three
\* shapes, has at most 5 recommended tests, so no annotation the merge
\* writes has more than 5 test children.
C13_AtMostFiveTests ==
    /\ Normalized =>
         \A i \in DOMAIN Entries :
             Len(Get(Entries[i], "recommended_tests", <<>>)) <= TestLimit
    /\ Merged =>
         \A hi \in FindingPaths : \A x \in 1..Len(Added(hi)) :
             Len(TestsOf(Added(hi)[x])) <= TestLimit

\* What holds of C13 on the code: the two converters cap the tests (1 + 2 +
\* 1 for verification_results, 3 for recommendations); a decisions object
\* is passed on as it is.
ConvertedTestsAreCapped ==
    Normalized /\ PresentKeys # {} /\ PresentKeys # {"decisions"} =>
        \A i \in DOMAIN Entries :
            Len(Entries[i]["recommended_tests"]) <=
                IF "verification_results" \in PresentKeys THEN 4 ELSE 3

(***************************************************************************)
(* SpecParse: one call of parse_nessus_report on a document whose first    *)
(* finding carries the numeric fields under test.                          *)
(***************************************************************************)
SeverityTexts == {"0", "3", " 2 ", "+4", "-1", "", "high", "3.0"}
ScoreTexts ==
    { "7.5", " 10 ", "10.0", ".5", "5.", "-1", "nan", "",
      "N/A", "7,5", "1.2.3", "high", "." }
Score3Texts == {"9.8", "n/a"}

ScoredItem(attrs, scores) ==
    Elem("ReportItem", attrs, "",
         scores \o << Elem("cve", EmptyDict, " CVE-1; CVE-2,", <<>>),
                      Elem("plugin_output", EmptyDict, " out ", <<>>) >>)

ScoredItems ==
    { ScoredItem(attrs, score \o score3) :
        attrs \in {[pluginID |-> "p1", port |-> "443"]}
                    \cup { [pluginID |-> "p1", port |-> "443", severity |-> s] :
                             s \in SeverityTexts },
        score \in {<<>>}
                    \cup { <<Elem("cvss_base_score", EmptyDict, t, <<>>)>> :
                             t \in ScoreTexts },
        score3 \in {<<>>}
                     \cup { <<Elem("cvss3_base_score", EmptyDict, t, <<>>)>> :
                              t \in Score3Texts } }

ParseDocuments ==
    { Document(Elem("NessusClientData_v2", EmptyDict, "",
                    <<Policy,
                      Elem("Report", [name |-> "scan"], "",
                           <<NamedHost(<<item, ItemLower>>)>>)>>)) :
        item \in ScoredItems }
      \cup { Document(Elem("NessusClientData_v2", EmptyDict, "", <<Policy>>)),
             Malformed }

InitParse ==
    /\ pc = "report"
    /\ original \in ParseDocuments
    /\ final_output = ObjInput(JNull)
    /\ ext = NotRun
    /\ parsed_obj = NotParsed
    /\ decisions_data = NoDecisions
    /\ new_xml = NoXml
    /\ output_path = ""
    /\ output_file = NoFile
    /\ passes = 0
    /\ raised = NotRaised
    /\ report_json = NoReport

Parse ==
    /\ pc = "report"
    /\ report_json' = ParseNessusReport(original)
    /\ pc' = "report_parsed"
    /\ UNCHANGED << final_output, ext, parsed_obj, decisions_data, original,
                    new_xml, output_path, output_file, passes, raised >>

NextParse == Parse

SpecParse == InitParse /\ [][NextParse]_vars

\* the texts of the model that are no number, and those that are no integer
NonNumericTexts == {"", "N/A", "n/a", "7,5", "1.2.3", "high", "."}
NonIntegerTexts == {"", "high", "3.0"}

\* the finding elements of the first host of the document, in order
SourceItems ==
    IF FindChild(original.root, "Report") = 0 THEN <<>>
    ELSE FindAll(original.root.children[FindChild(original.root, "Report")]
                   .children[1], "ReportItem")

\* the text of a child element of the finding; absent when there is none
ChildAbsent(item, tag) == \A i \in DOMAIN item.children : item.children[i].tag # tag
ChildText(item, tag) ==
    item.children[CHOOSE i \in DOMAIN item.children :
                    item.children[i].tag = tag].text

ScoreIsNone(item, tag, score) ==
    ChildAbsent(item, tag) \/ ChildText(item, tag) \in NonNumericTexts
        => score = PyNone

\* C11: parse never raises because of the text of a numeric field: a
\* cvss_base_score or cvss3_base_score that is absent or no number gives
\* None, and a severity that is absent or no integer gives 0.
C11_NumericFieldsArePermissive ==
    pc = "report_parsed" /\ original.wellFormed =>
        /\ report_json.kind = "value"
        /\ \A j \in DOMAIN SourceItems :
             LET item == SourceItems[j]
                 finding == report_json.val.hosts[1].findings[j]
             IN  /\ ScoreIsNone(item, "cvss_base_score", finding.cvss_base_score)
                 /\ ScoreIsNone(item, "cvss3_base_score", finding.cvss3_base_score)
                 /\ \/ "severity" \notin DOMAIN item.attrs
                    \/ item.attrs["severity"] \in NonIntegerTexts
                    => finding.severity = 0

\* What holds of C11 on the code: the scores are permissive, and the call
\* raises ValueError exactly when some severity text is no integer.
ScoresArePermissive ==
    pc = "report_parsed" /\ original.wellFormed =>
        /\ report_json.kind \in {"value", "ValueError"}
        /\ report_json.kind = "ValueError" <=>
             \E j \in DOMAIN SourceItems :
                 /\ "severity" \in DOMAIN SourceItems[j].attrs
                 /\ SourceItems[j].attrs["severity"] \in NonIntegerTexts \ {""}
        /\ report_json.kind = "value" =>
             \A j \in DOMAIN SourceItems :
                 LET item == SourceItems[j]
                     finding == report_json.val.hosts[1].findings[j]
                 IN  /\ ScoreIsNone(item, "cvss_base_score",
                                    finding.cvss_base_score)
                     /\ ScoreIsNone(item, "cvss3_base_score",
                                    finding.cvss3_base_score)
                     /\ finding.cvss_base_score # PyFloat(0)

(***************************************************************************)
(* SpecVerify: verify_nessus_report from the model output on (lines        *)
(* 260-298): extraction, normalization, merge.                             *)
(***************************************************************************)
VerifyFrags == 2   \* fragments of an input text of SpecVerify

LongText == [i \in 1..(PreviewLimit + 1) |-> "a"]
LongList == [i \in 1..PreviewLimit |-> PyInt(1)]

VerifyTexts ==
    { Wrap(w, Flatten(fs)) : w \in Wrappers, fs \in SeqsUpTo(Frags, VerifyFrags) }
      \cup { LongText, LongText \o <<"{">>, LongText \o <<"{", "}">> }

\* dicts of the three shapes with at most one entry
VerifyDicts ==
    { v \in ParsedValues :
        /\ v.isDict
        /\ \A k \in DOMAIN v.d \cap {"verification_results", "recommendations",
                                      "decisions"} : Len(v.d[k]) <= 1 }

\* dicts whose list holds a number where an entry dict is expected
FailingDicts ==
    { Dict([verification_results |-> <<PyInt(1)>>]),
      Dict([recommendations |-> <<PyInt(7), PyInt(8)>>]),
      Dict([verification_results |-> LongList]) }

VerifyInputs ==
    { StrInput(text) : text \in VerifyTexts }
      \cup { ObjInput(v) : v \in VerifyDicts \cup FailingDicts }
      \cup { NoneInput }

VerifyDocuments ==
    { Document(Elem("NessusClientData_v2", EmptyDict, "",
                    <<Policy,
                      Elem("Report", [name |-> "scan"], "",
                           << NamedHost(<<ItemLower, ItemNoPort>>),
                              UnnamedHost(<<ItemBlank>>) >>)>>)),
      Malformed }

InitVerify ==
    /\ pc = "called"
    /\ final_output \in VerifyInputs
    /\ original \in VerifyDocuments
    /\ output_path \in {"", "verified.nessus"}
    /\ ext = NotRun
    /\ parsed_obj = NotParsed
    /\ decisions_data = NoDecisions
    /\ new_xml = NoXml
    /\ output_file = NoFile
    /\ passes = 0
    /\ raised = NotRaised
    /\ report_json = NoReport

\* lines 263-269 and 287-290: a dict is taken as it is, anything else goes
\* through _extract_json_object as a str; its ValueError is caught and
\* raised again with the preview
ParseOutput ==
    /\ pc = "called"
    /\ IF IsStructured(final_output)
       THEN /\ parsed_obj' = final_output.obj
            /\ pc' = "parsed"
            /\ UNCHANGED <<ext, raised>>
       ELSE LET r == ExtractJsonObject(StrInput(OutputStr(final_output)))
            IN  /\ ext' = r
                /\ IF r.kind = "ValueError"
                   THEN /\ raised' = CallerError(r.msg, Preview(final_output))
                        /\ pc' = "failed"
                        /\ UNCHANGED parsed_obj
                   ELSE /\ parsed_obj' = FromJson(r.val)
                        /\ pc' = "parsed"
                        /\ UNCHANGED raised
    /\ UNCHANGED << final_output, decisions_data, original, new_xml,
                    output_path, output_file, passes, report_json >>

NextVerify == ParseOutput \/ Normalize \/ Compile

SpecVerify == InitVerify /\ [][NextVerify]_vars

\* the preview is a prefix of str(final_output) cut at PreviewLimit
IsPreviewOf(preview, output) ==
    IF IsNone(output) THEN preview = "<None>"
    ELSE /\ Len(preview) <= Len(PreviewUncut(output))
         /\ preview = SubSeq(PreviewUncut(output), 1, Len(preview))
         /\ Len(preview) = PreviewLimit \/ Len(preview) = Len(PreviewUncut(output))

Failed == pc = "failed"
MergeNotInvoked == passes = 0 /\ new_xml.kind = "none" /\ output_file.kind = "none"

\* the state after a failure of extraction or normalization
FailureIsLocal ==
    /\ pc \in {"failed", "normalized", "compiled"} =>
         (Failed <=> ext.kind = "ValueError" \/ NormalizeError(parsed_obj) # "")
    /\ pc = "parsed" => ext.kind # "ValueError"
    /\ Failed <=> raised.kind = "ValueError"
    /\ Failed =>
         /\ MergeNotInvoked
         /\ Len(raised.preview) <= PreviewLimit
         /\ IsPreviewOf(raised.preview, final_output)

\* a step of the merge comes after extraction and normalization, none of
\* which raised; normalization comes after extraction
StepsInOrder ==
    /\ passes' # passes \/ new_xml' # new_xml \/ output_file' # output_file =>
         pc = "normalized" /\ raised.kind = "none" /\ ext.kind # "ValueError"
    /\ pc' = "normalized" => pc = "parsed"
    /\ pc' = "parsed" => pc = "called"

\* C14: the steps run in the order extract, normalize, merge; if extraction
\* or normalization raises, the merge is never invoked and no output file is
\* written, and the caller gets one ValueError carrying a preview of the
\* model output of at most 500 characters.
C14_FailureStopsBeforeMerge ==
    /\ []FailureIsLocal
    /\ [][StepsInOrder]_vars
    /\ [](Failed => [](Failed /\ MergeNotInvoked))

\* C14 witness: normalization raised on a dict whose text is longer than the
\* limit; the caller got the ValueError with the preview cut at the limit
\* and nothing was merged or written although an output path was given.
C14_Witness ==
    /\ Failed
    /\ IsStructured(final_output)
    /\ NormalizeError(parsed_obj) # ""
    /\ Len(PreviewUncut(final_output)) > PreviewLimit
    /\ Len(raised.preview) = PreviewLimit
    /\ output_path # ""
    /\ output_file.kind = "none"

(***************************************************************************)
(* SpecRemerge: compile_nessus_report_with_verification_impl called again  *)
(* and again with the same decisions, each pass reading the file the       *)
(* previous pass wrote.                                                    *)
(***************************************************************************)
MaxPasses == 3     \* merge passes in a row

InitRemerge ==
    /\ pc = "normalized"
    /\ decisions_data \in
         { [decisions |-> ds] : ds \in SeqsUpTo(LegacyDecisions, MaxEntries) }
    /\ original \in Documents
    /\ output_path = "verified.nessus"
    /\ final_output = ObjInput(JNull)
    /\ ext = NotRun
    /\ parsed_obj = NotParsed
    /\ new_xml = NoXml
    /\ output_file = NoFile
    /\ passes = 0
    /\ raised = NotRaised
    /\ report_json = NoReport

\* one more pass: original_report_path is the output of the pass before
CompileAgain ==
    /\ pc = "compiled"
    /\ passes < MaxPasses
    /\ output_file.kind = "value"
    /\ new_xml' = CompileNessusReportWithVerificationImpl(
                      Document(output_file.root), decisions_data)
    /\ output_file' = WriteOutput(output_path, new_xml', output_file)
    /\ passes' = passes + 1
    /\ UNCHANGED << pc, final_output, ext, parsed_obj, decisions_data, original,
                    output_path, raised, report_json >>

NextRemerge == Compile \/ CompileAgain

SpecRemerge == InitRemerge /\ [][NextRemerge]_vars

\* the composite key of the finding is in the decision index
KeyInIndex(hi) ==
    ItemKey(OldHost(hi), OldItem(hi)) \in DOMAIN BuildIndex(Entries, EmptyDict)

\* C15: each merge pass appends exactly one new annotation child to every
\* finding whose composite key is in the decision index (findings that share
\* a key each get one), whatever annotations the finding already has: after
\* k passes with the same decisions every matched finding has k annotation
\* children, so the merge is not idempotent.
C15_EachPassAppendsOne ==
    Merged =>
        \A hi \in FindingPaths :
            KeyInIndex(hi) =>
                /\ Len(Added(hi)) = passes
                /\ \A x \in 1..Len(Added(hi)) :
                     Added(hi)[x].tag = NSTag("verification")

\* What holds of C15 on the code: after k passes a finding has k copies of
\* the annotation of its decision if that decision is not the empty record,
\* and none otherwise.
EachPassAppendsOneForNonEmpty ==
    Merged =>
        \A hi \in FindingPaths :
            IF KeyInIndex(hi) /\ Entries[LastOf(MatchesOf(hi))] # EmptyDict
            THEN Added(hi) =
                   [x \in 1..passes |->
                      Verification(Entries[LastOf(MatchesOf(hi))])]
            ELSE Added(hi) = <<>>

=============================================================================
